---- MODULE Spec2Model ----
(***************************************************************************)
(* Model of lucbarr/earthpornbot: api.Reddit.FetchSubmissions              *)
(* (src/api/reddit.go) and main (src/unnamed/part_000).                    *)
(*                                                                         *)
(* A URL, a file name and an extension are sequences of one-character      *)
(* strings.  An error value is a record [msg, arg]; Nil is Go's nil error. *)
(* The abort channel is unbuffered: a send and a receive happen together,  *)
(* as one step of the sending unit and of the orchestrator.                *)
(* The web is part of the state: what each URL serves is fixed when the    *)
(* run starts, while every call into the file system or the network may    *)
(* fail at the moment it is made.  The URLs of a listing have pairwise     *)
(* distinct final path segments, so every unit owns the file it creates.   *)
(***************************************************************************)
EXTENDS Integers, Sequences, FiniteSets, TLC

\* ------------------------------------------------------------- bounds
MaxUnits == 3      \* at most this many eligible URLs in a listing
MaxDim == 2        \* image widths and heights range over 1..MaxDim
MaxPosts == 2      \* filter inputs: at most this many candidate URLs
MaxChars == 6      \* filter inputs: the candidate URLs hold at most this many characters together
MaxExts == 2       \* filter inputs: allow-lists of at most this many extensions

Units == 1..MaxUnits
Dims == 1..MaxDim

VARIABLES
  allowedExt,  \* the configured extensions behind Reddit.allowedExtMatches
  web,         \* the submissions on offer: their URL and what the URL serves
  posts,       \* URLs of the submissions the listing returned
  validURLs,   \* result of fetchSubmissions
  dirs,        \* destination directories that exist in the working directory
  opc,         \* position of main / FetchSubmissions
  li,          \* number of goroutines launched by the loop of line 173
  i,           \* loop counter of line 177
  ret,         \* value FetchSubmissions returned
  nrecv,       \* number of receives from abort completed
  pc,          \* pc[u]: position of unit u inside fetchImage
  launched,    \* launched[u]: number of goroutines started for validURLs[u]
  codec,       \* codec[u]: local variable codec
  ratio,       \* ratio[u]: local variable aspectRatio, a fraction <<w, h>>
  out,         \* out[u]: the value unit u sends on abort
  failed,      \* failed[u]: the step of fetchImage that failed, "" if none
  sends,       \* sends[u]: number of sends unit u completed
  loc,         \* loc[u]: where the file of unit u is
  data,        \* data[u]: what the file of unit u holds
  handles      \* number of handles getImageAspectRatio opened and nothing closed since

vars == <<allowedExt, web, posts, validURLs, dirs, opc, li, i, ret, nrecv, pc,
          launched, codec, ratio, out, failed, sends, loc, data, handles>>

envVars == <<allowedExt, web, posts, validURLs, dirs>>
orchVars == <<opc, li, i, ret, nrecv>>
unitVars == <<pc, launched, codec, ratio, out, failed, sends, loc, data, handles>>

\* ------------------------------------------------------------- values
Nil == [msg |-> "<nil>", arg |-> <<>>]
NoRet == [msg |-> "<not returned>", arg |-> <<>>]
Err(m, a) == [msg |-> m, arg |-> a]

NoCodec == ""
JPEG == "jpeg"
PNG == "png"
NoRatio == <<0, 0>>

\* what a file or a response body holds: the header of an image in one of the
\* two encodings, or bytes that are no image
Image(f, w, h) == [fmt |-> f, w |-> w, h |-> h]
Garbage == [fmt |-> "garbage", w |-> 0, h |-> 0]
NoFile == [fmt |-> "no file", w |-> 0, h |-> 0]
Empty == [fmt |-> "empty", w |-> 0, h |-> 0]
Partial == [fmt |-> "partial", w |-> 0, h |-> 0]
Bodies == {Garbage} \cup {Image(f, w, h) : f \in {JPEG, PNG}, w \in Dims, h \in Dims}
ContentTypes == {"image/jpeg", "image/png", "image/gif"}

\* ------------------------------------------------------------- the filter
\* regexp "^.+\\.%s$" of NewReddit, for a literal extension ext: one or more
\* characters other than newline, a dot, the extension, end of text.
MatchString(ext, s) ==
  LET n == Len(s)
      m == Len(ext)
  IN  /\ n >= m + 2
      /\ SubSeq(s, n - m + 1, n) = ext
      /\ s[n - m] = "."
      /\ \A k \in 1..(n - m - 1) : s[k] # "\n"

\* a slip in isImageURL: ret = regex.MatchString(s), the last pattern decides
RECURSIVE isImageURLLast(_, _, _, _)
isImageURLLast(exts, k, acc, s) ==
  IF k > Len(exts) THEN acc
  ELSE isImageURLLast(exts, k + 1, MatchString(exts[k], s), s)

\* isImageURL: ret = ret || regex.MatchString(s) over allowedExtMatches
RECURSIVE isImageURLFrom(_, _, _, _)
isImageURLFrom(exts, k, acc, s) ==
  IF k > Len(exts) THEN acc
  ELSE isImageURLFrom(exts, k + 1, acc \/ MatchString(exts[k], s), s)

isImageURL(exts, s) == isImageURLFrom(exts, 1, FALSE, s)

\* the loop of fetchSubmissions over posts, appending to validURLs
RECURSIVE filterFrom(_, _, _, _)
filterFrom(exts, ps, k, acc) ==
  IF k > Len(ps) THEN acc
  ELSE filterFrom(exts, ps, k + 1,
                  IF isImageURL(exts, ps[k]) THEN Append(acc, ps[k]) ELSE acc)

filterURLs(exts, ps) == filterFrom(exts, ps, 1, <<>>)

\* ------------------------------------------------------------- file names
\* filenameRegex "[^/]*$" with FindAllString(url, 1): the leftmost match is the
\* longest suffix without a slash (the empty suffix when url ends in a slash or
\* is empty), so there is always exactly one match.
RECURSIVE LastSlash(_, _)
LastSlash(url, k) ==
  IF k = 0 THEN 0
  ELSE IF url[k] = "/" THEN k ELSE LastSlash(url, k - 1)

FindAllString(url) == <<SubSeq(url, LastSlash(url, Len(url)) + 1, Len(url))>>

\* ------------------------------------------------------------- the listing
Digit(k) == ToString(k)
ImageURL(k) == <<"h", "/", Digit(k), ".", IF k % 2 = 1 THEN "j" ELSE "p">>
OtherURL == <<"h", "/", "x", ".", "g">>
SlashURL == <<"h", ".", "/">>
DefaultExt == <<<<"j">>, <<"p">>>>

Site(url, ctype, body) == [url |-> url, ctype |-> ctype, body |-> body]

\* the k-th submission of the feed: a wide JPEG, a tall PNG, a square JPEG, a
\* PNG declared as JPEG, and so on
FeedSite(k) ==
  CASE k % 4 = 1 -> Site(ImageURL(k), "image/jpeg", Image(JPEG, MaxDim, 1))
    [] k % 4 = 2 -> Site(ImageURL(k), "image/png", Image(PNG, 1, MaxDim))
    [] k % 4 = 3 -> Site(ImageURL(k), "image/jpeg", Image(JPEG, 1, 1))
    [] OTHER -> Site(ImageURL(k), "image/jpeg", Image(PNG, 1, 1))

Feed == [k \in 1..MaxUnits |-> FeedSite(k)]

\* The runs: the feed under the default allow-list; one submission serving any
\* content-type and any body; and one submission whose URL ends in a slash,
\* eligible under an allow-list that holds the extension "/".
Worlds ==
  {[ext |-> DefaultExt, web |-> Feed]}
    \cup {[ext |-> DefaultExt, web |-> <<Site(ImageURL(1), c, b)>>] :
            c \in ContentTypes, b \in Bodies}
    \cup {[ext |-> <<<<"j">>, <<"/">>>>,
           web |-> <<Site(SlashURL, "image/jpeg", Image(JPEG, 1, 1))>>]}

\* what url serves
RECURSIVE SiteFrom(_, _)
SiteFrom(url, k) == IF web[k].url = url THEN web[k] ELSE SiteFrom(url, k + 1)
SiteOf(url) == SiteFrom(url, 1)

N == Len(validURLs)

\* ------------------------------------------------------------- main, setup
Init ==
  /\ \E w \in Worlds : allowedExt = w.ext /\ web = w.web
  /\ posts = <<>>
  /\ validURLs = <<>>
  /\ dirs \in {{}, {"hori", "vert"}}
  /\ opc = "auth"
  /\ li = 0
  /\ i = 0
  /\ ret = NoRet
  /\ nrecv = 0
  /\ pc = [u \in Units |-> "idle"]
  /\ launched = [u \in Units |-> 0]
  /\ codec = [u \in Units |-> NoCodec]
  /\ ratio = [u \in Units |-> NoRatio]
  /\ out = [u \in Units |-> Nil]
  /\ failed = [u \in Units |-> ""]
  /\ sends = [u \in Units |-> 0]
  /\ loc = [u \in Units |-> "none"]
  /\ data = [u \in Units |-> NoFile]
  /\ handles = 0

\* main: reddit.Authenticate(); panic(err) on failure
Authenticate ==
  /\ opc = "auth"
  /\ \E ok \in BOOLEAN : opc' = IF ok THEN "list" ELSE "panic"
  /\ UNCHANGED <<li, i, ret, nrecv>>
  /\ UNCHANGED envVars
  /\ UNCHANGED unitVars

\* a slip in lines 91-95: the two os.Mkdir calls before r.fetchSubmissions()
fetchSubmissionsAfterMkdir ==
  /\ opc = "list"
  /\ \E ok \in BOOLEAN, n \in 0..Len(web) :
       IF ok
       THEN /\ posts' = <<OtherURL>> \o [k \in 1..n |-> web[k].url]
            /\ validURLs' = filterURLs(allowedExt, posts')
            /\ opc' = "launch"
       ELSE /\ opc' = "fatal"
            /\ UNCHANGED <<posts, validURLs>>
  /\ dirs' = {"hori", "vert"}
  /\ UNCHANGED <<allowedExt, web, li, i, ret, nrecv>>
  /\ UNCHANGED unitVars

\* r.fetchSubmissions(): log.Fatal(err) when the listing fails, else the URLs
\* of the first n submissions (n the limit), filtered by isImageURL
fetchSubmissions ==
  /\ opc = "list"
  /\ \E ok \in BOOLEAN, n \in 0..Len(web) :
       IF ok
       THEN /\ posts' = <<OtherURL>> \o [k \in 1..n |-> web[k].url]
            /\ validURLs' = filterURLs(allowedExt, posts')
            /\ opc' = "mkdir hori"
       ELSE /\ opc' = "fatal"
            /\ UNCHANGED <<posts, validURLs>>
  /\ UNCHANGED <<allowedExt, web, dirs, li, i, ret, nrecv>>
  /\ UNCHANGED unitVars

\* os.Mkdir("hori", os.ModePerm); os.Mkdir("vert", os.ModePerm): the call
\* makes the directory or fails (the directory exists, a file of that name
\* exists, the working directory cannot be written), and its error is dropped
Mkdir(d) ==
  /\ opc = IF d = "hori" THEN "mkdir hori" ELSE "mkdir vert"
  /\ \E ok \in BOOLEAN : dirs' = IF ok THEN dirs \cup {d} ELSE dirs
  /\ opc' = IF d = "hori" THEN "mkdir vert" ELSE "launch"
  /\ UNCHANGED <<allowedExt, web, posts, validURLs, li, i, ret, nrecv>>
  /\ UNCHANGED unitVars

\* for _, url := range validURLs { go fetchImage(url, abort) }
GoFetchImage ==
  /\ opc = "launch"
  /\ li < N
  /\ li' = li + 1
  /\ pc' = [pc EXCEPT ![li + 1] = "create"]
  /\ launched' = [launched EXCEPT ![li + 1] = @ + 1]
  /\ UNCHANGED <<opc, i, ret, nrecv>>
  /\ UNCHANGED envVars
  /\ UNCHANGED <<codec, ratio, out, failed, sends, loc, data, handles>>

RangeDone ==
  /\ opc = "launch"
  /\ li >= N
  /\ opc' = "loop"
  /\ UNCHANGED <<li, i, ret, nrecv>>
  /\ UNCHANGED envVars
  /\ UNCHANGED unitVars

\* ------------------------------------------------------------- fetchImage
\* lines 128-133: the codec for the content-type of the HEAD response
CodecOf(contentType) ==
  IF contentType = "image/jpeg" THEN JPEG
  ELSE IF contentType = "image/png" THEN PNG
  ELSE NoCodec

\* float64(imageCfg.Width) / float64(imageCfg.Height), kept as the fraction
\* <<w, h>>: the quotient of two positive ints below 2^53 is above 1.0
\* exactly when w > h, because 1.0 is a float64 and rounding is monotonic.
AspectRatioOf(w, h) == <<w, h>>
GreaterThanOne(r) == r[1] > r[2]

\* jpeg.DecodeConfig / png.DecodeConfig behind getJPEGAspectRatio and
\* getPNGAspectRatio: the header of content read as encoding f
DecodeAspectRatio(f, content) ==
  IF content.fmt = f
  THEN [ratio |-> AspectRatioOf(content.w, content.h), err |-> ""]
  ELSE [ratio |-> NoRatio, err |-> "decode"]

\* getImageAspectRatio(filename, codec) on a file holding content, opened
\* telling whether os.Open succeeded: the results (ratio, err), err = "" for nil
getImageAspectRatio(cdc, opened, content) ==
  IF ~opened THEN [ratio |-> NoRatio, err |-> "open"]
  ELSE IF cdc = JPEG THEN DecodeAspectRatio(JPEG, content)
  ELSE IF cdc = PNG THEN DecodeAspectRatio(PNG, content)
  ELSE [ratio |-> NoRatio, err |-> "unsupported file type"]

\* a slip in line 156: aspectRatio >= 1.0
NewPathDirSquareHori(r) == IF r[1] >= r[2] THEN "hori" ELSE "vert"

\* lines 155-160: the directory of newPath
NewPathDir(r) == IF GreaterThanOne(r) THEN "hori" ELSE "vert"

\* line 100: the outcome sent when the file name pattern finds nothing
NamingFailure == Err("No match for regex", <<>>)

\* line 144: the outcome sent when io.Copy fails
StreamFailure == Err("No match for regex", <<>>)

\* line 150: the outcome sent when getImageAspectRatio returns the error e
ExtractFailure(e) == Err("No match for regex", <<>>)

\* abort <- err; return: the unit reaches its send with the value e
Abort(u, step, e) ==
  /\ pc' = [pc EXCEPT ![u] = "send"]
  /\ out' = [out EXCEPT ![u] = e]
  /\ failed' = [failed EXCEPT ![u] = step]

FileName(u) == FindAllString(validURLs[u])[1]

\* a slip in lines 104-109: an os.Create that accepts the empty name
CreateEmptyName(u) ==
  /\ pc[u] = "create"
  /\ \E ok \in BOOLEAN :
       IF ok
       THEN /\ loc' = [loc EXCEPT ![u] = "wd"]
            /\ data' = [data EXCEPT ![u] = Empty]
            /\ pc' = [pc EXCEPT ![u] = "chmod"]
            /\ UNCHANGED <<out, failed>>
       ELSE /\ Abort(u, "create", Err("Could not create file", FileName(u)))
            /\ UNCHANGED <<loc, data>>
  /\ UNCHANGED envVars
  /\ UNCHANGED orchVars
  /\ UNCHANGED <<launched, codec, ratio, sends, handles>>

\* lines 98-110: filenameRegex.FindAllString, os.Create
Create(u) ==
  /\ pc[u] = "create"
  /\ IF Len(FindAllString(validURLs[u])) = 0
     THEN /\ Abort(u, "naming", NamingFailure)
          /\ UNCHANGED <<loc, data>>
     ELSE \E ok \in BOOLEAN :
            IF ok /\ FileName(u) # <<>>
            THEN /\ loc' = [loc EXCEPT ![u] = "wd"]
                 /\ data' = [data EXCEPT ![u] = Empty]
                 /\ pc' = [pc EXCEPT ![u] = "chmod"]
                 /\ UNCHANGED <<out, failed>>
            ELSE /\ Abort(u, "create", Err("Could not create file", FileName(u)))
                 /\ UNCHANGED <<loc, data>>
  /\ UNCHANGED envVars
  /\ UNCHANGED orchVars
  /\ UNCHANGED <<launched, codec, ratio, sends, handles>>

\* a slip in lines 113-116: return without abort <- err
ChmodNoSend(u) ==
  /\ pc[u] = "chmod"
  /\ \E ok \in BOOLEAN :
       IF ok
       THEN /\ pc' = [pc EXCEPT ![u] = "head"]
            /\ UNCHANGED <<out, failed>>
       ELSE /\ pc' = [pc EXCEPT ![u] = "done"]
            /\ out' = [out EXCEPT ![u] = Err("chmod", FileName(u))]
            /\ failed' = [failed EXCEPT ![u] = "chmod"]
  /\ UNCHANGED envVars
  /\ UNCHANGED orchVars
  /\ UNCHANGED <<launched, codec, ratio, sends, loc, data, handles>>

\* lines 112-116: os.Chmod
Chmod(u) ==
  /\ pc[u] = "chmod"
  /\ \E ok \in BOOLEAN :
       IF ok
       THEN /\ pc' = [pc EXCEPT ![u] = "head"]
            /\ UNCHANGED <<out, failed>>
       ELSE Abort(u, "chmod", Err("chmod", FileName(u)))
  /\ UNCHANGED envVars
  /\ UNCHANGED orchVars
  /\ UNCHANGED <<launched, codec, ratio, sends, loc, data, handles>>

\* a slip in lines 118-146: the body is fetched and copied before the error
\* of r.client.Head is looked at
ClientHeadChecksLate(u) ==
  /\ pc[u] = "head"
  /\ \E ok \in BOOLEAN :
       IF ok
       THEN /\ codec' = [codec EXCEPT ![u] = CodecOf(SiteOf(validURLs[u]).ctype)]
            /\ pc' = [pc EXCEPT ![u] = "get"]
            /\ UNCHANGED <<out, failed, data>>
       ELSE /\ data' = [data EXCEPT ![u] = SiteOf(validURLs[u]).body]
            /\ Abort(u, "head", Err("could not get HEAD", <<>>))
            /\ UNCHANGED codec
  /\ UNCHANGED envVars
  /\ UNCHANGED orchVars
  /\ UNCHANGED <<launched, ratio, sends, loc, handles>>

\* lines 118-133: r.client.Head(url), then the codec of its content-type
ClientHead(u) ==
  /\ pc[u] = "head"
  /\ \E ok \in BOOLEAN :
       IF ok
       THEN /\ codec' = [codec EXCEPT ![u] = CodecOf(SiteOf(validURLs[u]).ctype)]
            /\ pc' = [pc EXCEPT ![u] = "get"]
            /\ UNCHANGED <<out, failed>>
       ELSE /\ Abort(u, "head", Err("could not get HEAD", <<>>))
            /\ UNCHANGED codec
  /\ UNCHANGED envVars
  /\ UNCHANGED orchVars
  /\ UNCHANGED <<launched, ratio, sends, loc, data, handles>>

\* lines 135-139: r.client.Get(url)
ClientGet(u) ==
  /\ pc[u] = "get"
  /\ \E ok \in BOOLEAN :
       IF ok
       THEN /\ pc' = [pc EXCEPT ![u] = "copy"]
            /\ UNCHANGED <<out, failed>>
       ELSE Abort(u, "get", Err("Could not gete content length", <<>>))
  /\ UNCHANGED envVars
  /\ UNCHANGED orchVars
  /\ UNCHANGED <<launched, codec, ratio, sends, loc, data, handles>>

\* lines 141-146: io.Copy(file, resp.Body)
Copy(u) ==
  /\ pc[u] = "copy"
  /\ \E ok \in BOOLEAN :
       IF ok
       THEN /\ data' = [data EXCEPT ![u] = SiteOf(validURLs[u]).body]
            /\ pc' = [pc EXCEPT ![u] = "extract"]
            /\ UNCHANGED <<out, failed>>
       ELSE /\ data' = [data EXCEPT ![u] = Partial]
            /\ Abort(u, "copy", StreamFailure)
  /\ UNCHANGED envVars
  /\ UNCHANGED orchVars
  /\ UNCHANGED <<launched, codec, ratio, sends, loc, handles>>

\* lines 148-153: getImageAspectRatio(filename, codec); the handle of its
\* os.Open (line 220) is closed on none of its return paths
Extract(u) ==
  /\ pc[u] = "extract"
  /\ \E opened \in BOOLEAN :
       LET res == getImageAspectRatio(codec[u], opened, data[u])
       IN  /\ handles' = IF opened THEN handles + 1 ELSE handles
           /\ IF res.err = ""
              THEN /\ ratio' = [ratio EXCEPT ![u] = res.ratio]
                   /\ pc' = [pc EXCEPT ![u] = "rename"]
                   /\ UNCHANGED <<out, failed>>
              ELSE /\ Abort(u, res.err, ExtractFailure(res.err))
                   /\ UNCHANGED ratio
  /\ UNCHANGED envVars
  /\ UNCHANGED orchVars
  /\ UNCHANGED <<launched, codec, sends, loc, data>>

\* The handle is unreachable once getImageAspectRatio has returned; the
\* runtime may collect it at any later moment, or never before the process
\* ends, and the finalizer of an os.File closes it.
Finalize ==
  /\ handles > 0
  /\ handles' = handles - 1
  /\ UNCHANGED envVars
  /\ UNCHANGED orchVars
  /\ UNCHANGED <<pc, launched, codec, ratio, out, failed, sends, loc, data>>

\* a slip in lines 162-166: the error of os.Rename is not looked at
RenameUnchecked(u) ==
  /\ pc[u] = "rename"
  /\ \E ok \in BOOLEAN :
       /\ loc' = IF ok /\ NewPathDir(ratio[u]) \in dirs
                 THEN [loc EXCEPT ![u] = NewPathDir(ratio[u])]
                 ELSE loc
       /\ pc' = [pc EXCEPT ![u] = "send"]
       /\ out' = [out EXCEPT ![u] = Nil]
  /\ UNCHANGED envVars
  /\ UNCHANGED orchVars
  /\ UNCHANGED <<launched, failed, codec, ratio, sends, data, handles>>

\* a slip in lines 162-166: a rename that reports its error after the file
\* has arrived at newPath
RenameNotAtomic(u) ==
  /\ pc[u] = "rename"
  /\ \E ok \in BOOLEAN :
       IF NewPathDir(ratio[u]) \in dirs
       THEN /\ loc' = [loc EXCEPT ![u] = NewPathDir(ratio[u])]
            /\ IF ok
               THEN /\ pc' = [pc EXCEPT ![u] = "send"]
                    /\ out' = [out EXCEPT ![u] = Nil]
                    /\ UNCHANGED failed
               ELSE Abort(u, "rename", Err("rename", FileName(u)))
       ELSE /\ Abort(u, "rename", Err("rename", FileName(u)))
            /\ UNCHANGED loc
  /\ UNCHANGED envVars
  /\ UNCHANGED orchVars
  /\ UNCHANGED <<launched, codec, ratio, sends, data, handles>>

\* lines 155-169: os.Rename(filename, newPath), then abort <- nil
Rename(u) ==
  /\ pc[u] = "rename"
  /\ \E ok \in BOOLEAN :
       IF ok /\ NewPathDir(ratio[u]) \in dirs
       THEN /\ loc' = [loc EXCEPT ![u] = NewPathDir(ratio[u])]
            /\ pc' = [pc EXCEPT ![u] = "send"]
            /\ out' = [out EXCEPT ![u] = Nil]
            /\ UNCHANGED failed
       ELSE /\ Abort(u, "rename", Err("rename", FileName(u)))
            /\ UNCHANGED loc
  /\ UNCHANGED envVars
  /\ UNCHANGED orchVars
  /\ UNCHANGED <<launched, codec, ratio, sends, data, handles>>

\* the send of unit u completes and fetchImage returns: its locals are gone
Sent(u) ==
  /\ pc' = [pc EXCEPT ![u] = "done"]
  /\ sends' = [sends EXCEPT ![u] = @ + 1]
  /\ codec' = [codec EXCEPT ![u] = NoCodec]
  /\ ratio' = [ratio EXCEPT ![u] = NoRatio]
  /\ UNCHANGED <<launched, out, failed, loc, data, handles>>

\* ------------------------------------------------------------- the fan-in
\* a slip in line 177: i < len(validURLs) - 1
LoopCondShort(k, n) == k < n - 1

\* a slip in line 177: i <= len(validURLs)
LoopCondInclusive(k, n) == k <= n

\* i < len(validURLs), line 177
LoopCond(k, n) == k < n

\* lines 177-178: (<-abort) != nil inside the loop
Receive(u) ==
  /\ opc = "loop"
  /\ LoopCond(i, N)
  /\ pc[u] = "send"
  /\ Sent(u)
  /\ nrecv' = nrecv + 1
  /\ IF out[u] # Nil
     THEN opc' = "again" /\ i' = i
     ELSE opc' = "loop" /\ i' = i + 1
  /\ UNCHANGED <<li, ret>>
  /\ UNCHANGED envVars

\* line 179: return <-abort
ReceiveAgain(u) ==
  /\ opc = "again"
  /\ pc[u] = "send"
  /\ Sent(u)
  /\ nrecv' = nrecv + 1
  /\ ret' = out[u]
  /\ opc' = "returned"
  /\ UNCHANGED <<li, i>>
  /\ UNCHANGED envVars

\* line 182: return nil
ReturnNil ==
  /\ opc = "loop"
  /\ ~LoopCond(i, N)
  /\ ret' = Nil
  /\ opc' = "returned"
  /\ UNCHANGED <<li, i, nrecv>>
  /\ UNCHANGED envVars
  /\ UNCHANGED unitVars

Next ==
  \/ Authenticate
  \/ fetchSubmissions
  \/ \E d \in {"hori", "vert"} : Mkdir(d)
  \/ GoFetchImage
  \/ RangeDone
  \/ \E u \in Units :
       \/ Create(u)
       \/ Chmod(u)
       \/ ClientHead(u)
       \/ ClientGet(u)
       \/ Copy(u)
       \/ Extract(u)
       \/ Rename(u)
       \/ Receive(u)
       \/ ReceiveAgain(u)
  \/ Finalize
  \/ ReturnNil

Spec == Init /\ [][Next]_vars

\* ------------------------------------------------------------- the filter alone
\* fetchSubmissions' filter applied to arbitrary listings and allow-lists
UrlChars == {"j", ".", "\n"}
Exts == {<<"j">>, <<"p">>}

RECURSIVE StringsOfLen(_)
StringsOfLen(n) ==
  IF n = 0 THEN {<<>>}
  ELSE {Append(s, c) : s \in StringsOfLen(n - 1), c \in UrlChars}

StrByLen == [n \in 0..MaxChars |-> StringsOfLen(n)]

RECURSIVE ExtListsOf(_)
ExtListsOf(k) ==
  IF k = 0 THEN {<<>>}
  ELSE {Append(l, e) : l \in ExtListsOf(k - 1), e \in Exts}

ExtLists == UNION {ExtListsOf(k) : k \in 0..MaxExts}

RECURSIVE TotalLen(_, _)
TotalLen(ps, k) == IF k = 0 THEN 0 ELSE Len(ps[k]) + TotalLen(ps, k - 1)

InitFilter ==
  /\ allowedExt \in ExtLists
  /\ web = <<>>
  /\ posts = <<>>
  /\ validURLs = <<>>
  /\ dirs = {}
  /\ opc = "listing"
  /\ li = 0
  /\ i = 0
  /\ ret = NoRet
  /\ nrecv = 0
  /\ pc = [u \in Units |-> "idle"]
  /\ launched = [u \in Units |-> 0]
  /\ codec = [u \in Units |-> NoCodec]
  /\ ratio = [u \in Units |-> NoRatio]
  /\ out = [u \in Units |-> Nil]
  /\ failed = [u \in Units |-> ""]
  /\ sends = [u \in Units |-> 0]
  /\ loc = [u \in Units |-> "none"]
  /\ data = [u \in Units |-> NoFile]
  /\ handles = 0

\* line 190: the listing yields one more submission, with any URL
Submission ==
  /\ opc = "listing"
  /\ Len(posts) < MaxPosts
  /\ \E n \in 0..(MaxChars - TotalLen(posts, Len(posts))) :
       \E s \in StrByLen[n] : posts' = Append(posts, s)
  /\ UNCHANGED <<allowedExt, web, validURLs, dirs, opc, li, i, ret, nrecv>>
  /\ UNCHANGED unitVars

\* lines 203-209
ApplyFilter ==
  /\ opc = "listing"
  /\ validURLs' = filterURLs(allowedExt, posts)
  /\ opc' = "filtered"
  /\ UNCHANGED <<allowedExt, web, posts, dirs, li, i, ret, nrecv>>
  /\ UNCHANGED unitVars

NextFilter == Submission \/ ApplyFilter

SpecFilter == InitFilter /\ [][NextFilter]_vars

\* ------------------------------------------------------------- properties
Returned == opc = "returned"
Launched == 1..N
Dest == {"hori", "vert"}
\* unit u has handed its outcome to the orchestrator
Delivered(u) == pc[u] = "done"
\* unit u has reached its outcome (it is sending it or has sent it)
Decided(u) == pc[u] \in {"send", "done"}

\* C1: when FetchSubmissions has returned, it returned nil only if every unit
\* sent nil, and if some unit sent an error it returned an error that one of
\* the failing units sent.
ClaimC1 ==
  Returned =>
    /\ ret = Nil => \A u \in Launched : Delivered(u) /\ out[u] = Nil
    /\ (\E u \in Launched : Delivered(u) /\ out[u] # Nil) =>
         /\ ret # Nil
         /\ \E u \in Launched : Delivered(u) /\ out[u] = ret

\* C2: when FetchSubmissions has returned, it has received as many outcomes as
\* units were launched and no unit is still in flight.
ClaimC2 ==
  Returned => nrecv = N /\ \A u \in Launched : Delivered(u)

\* C3: the orchestrator is never blocked on a receive from abort while no unit
\* remains that will send.
ClaimC3 ==
  ~ /\ opc = "again" \/ (opc = "loop" /\ LoopCond(i, N))
    /\ \A u \in Launched : Delivered(u)

\* C4: the orchestrator receives one signal per dispatched unit, also when it
\* reports failure, so no unit is left blocked on its send after the return.
ClaimC4 ==
  Returned => nrecv = li /\ \A u \in Launched : pc[u] # "send"

\* C5: when exactly one unit fails and the others succeed, FetchSubmissions
\* returns an error, the succeeding units' files are in hori/ or vert/ and the
\* failing unit's file is in neither.
ClaimC5 ==
  ( /\ Returned
    /\ \A u \in Launched : Decided(u)
    /\ Cardinality({u \in Launched : out[u] # Nil}) = 1 ) =>
    /\ ret # Nil
    /\ \A u \in Launched : (out[u] = Nil) <=> (loc[u] \in Dest)

\* C6: when no unit fails, FetchSubmissions returns nil, and when it returns
\* the N files are in hori/ or vert/ and none is in the working directory.
TheoremC6 ==
  (Returned /\ \A u \in Launched : failed[u] = "") =>
    /\ ret = Nil
    /\ Cardinality({u \in Units : loc[u] \in Dest}) = N
    /\ \A u \in Units : loc[u] # "wd"

WitnessC6 ==
  /\ Returned
  /\ N >= 2
  /\ \A u \in Launched : failed[u] = ""
  /\ \E u, v \in Launched : loc[u] = "hori" /\ loc[v] = "vert"

\* C7: each eligible URL gets exactly one unit, and a unit that has left
\* fetchImage, by whichever exit, has performed exactly one send on abort; no
\* unit ever performs more than one.
TheoremC7 ==
  /\ \A u \in Units : launched[u] = (IF u <= li THEN 1 ELSE 0)
  /\ li <= N
  /\ opc \in {"loop", "again", "returned"} => li = N
  /\ \A u \in Units : sends[u] = (IF pc[u] = "done" THEN 1 ELSE 0)

WitnessC7 ==
  /\ N >= 2
  /\ \E u, v \in Launched :
       /\ Delivered(u) /\ out[u] = Nil /\ sends[u] = 1
       /\ Delivered(v) /\ out[v] # Nil /\ sends[v] = 1

\* C8 as stated: once FetchSubmissions has returned, no file of a unit is at
\* its working-directory path.
ClaimC8 ==
  Returned => \A u \in Units : loc[u] # "wd"

\* C8 amended: once FetchSubmissions has returned, a file still at its
\* working-directory path belongs to a unit that failed or that is still in
\* flight; the file of a unit that reported success is in hori/ or vert/.
TheoremC8 ==
  Returned =>
    \A u \in Units :
      /\ loc[u] = "wd" => (out[u] # Nil \/ ~Decided(u))
      /\ (Decided(u) /\ out[u] = Nil) => loc[u] \in Dest

WitnessC8 ==
  /\ Returned
  /\ \E u, v \in Launched :
       /\ Delivered(u) /\ out[u] # Nil /\ loc[u] = "wd"
       /\ Delivered(v) /\ out[v] = Nil /\ loc[v] \in Dest

\* C9: a unit that reports success holds an image of w x h pixels, w and h
\* positive, and its file is in hori/ exactly when w > h and in vert/
\* otherwise, so also when w = h; until fetchImage returns, its aspectRatio is
\* w / h.
TheoremC9 ==
  \A u \in Units :
    (Decided(u) /\ out[u] = Nil) =>
      /\ data[u].fmt \in {JPEG, PNG}
      /\ data[u].w >= 1 /\ data[u].h >= 1
      /\ loc[u] = (IF data[u].w > data[u].h THEN "hori" ELSE "vert")
      /\ pc[u] = "send" => ratio[u] = <<data[u].w, data[u].h>>

WitnessC9 ==
  \E u \in Units :
    /\ Delivered(u) /\ out[u] = Nil
    /\ data[u].w = data[u].h
    /\ loc[u] = "vert"

\* s ends in a dot followed by the extension e
EndsInDotExt(s, e) ==
  /\ Len(s) >= Len(e) + 1
  /\ SubSeq(s, Len(s) - Len(e), Len(s)) = <<".">> \o e

AllowedSuffix(s) == \E k \in 1..Len(allowedExt) : EndsInDotExt(s, allowedExt[k])

\* s is one or more characters other than a newline, a dot, the extension e
StemDotExt(s, e) ==
  \E n \in 1..Len(s) :
    /\ s = SubSeq(s, 1, n) \o <<".">> \o e
    /\ \A k \in 1..n : s[k] # "\n"

AllowedStemSuffix(s) == \E k \in 1..Len(allowedExt) : StemDotExt(s, allowedExt[k])

\* C10 as stated: the filter returns exactly the URLs that end in a dot
\* followed by an allowed extension, in their order.
ClaimC10 ==
  opc = "filtered" => validURLs = SelectSeq(posts, AllowedSuffix)

\* C10 amended: the filter returns, in their order, exactly the URLs made of
\* one or more characters other than a newline, then a dot, then an allowed
\* extension; with an empty allow-list it returns the empty sequence.
TheoremC10 ==
  opc = "filtered" =>
    /\ validURLs = SelectSeq(posts, AllowedStemSuffix)
    /\ allowedExt = <<>> => validURLs = <<>>

WitnessC10 ==
  /\ opc = "filtered"
  /\ Len(allowedExt) = 2
  /\ Len(posts) = 2
  /\ validURLs = posts
  /\ posts[1] # posts[2]

\* C11: the file of a unit is in hori/ or vert/ exactly when its os.Rename
\* has succeeded; a unit at or past its send sends nil exactly in that case,
\* so a unit that sends an error has placed no file; the file is in an
\* existing directory, and at one path only since the rename is a move.
TheoremC11 ==
  \A u \in Units :
    /\ loc[u] \in Dest <=> (Decided(u) /\ failed[u] = "")
    /\ Decided(u) => (out[u] = Nil <=> failed[u] = "")
    /\ (Decided(u) /\ out[u] # Nil) => loc[u] \notin Dest
    /\ loc[u] \in Dest => loc[u] \in dirs
    /\ loc[u] \in {"none", "wd", "hori", "vert"}

WitnessC11 ==
  \E u, v \in Units :
    /\ pc[u] = "send" /\ out[u] = Nil /\ loc[u] = "hori"
    /\ pc[v] = "send" /\ failed[v] = "rename" /\ loc[v] = "wd"

\* unit u was given a URL whose content-type is neither image/jpeg nor
\* image/png
Unsupported(u) == u \in 1..N /\ CodecOf(SiteOf(validURLs[u]).ctype) = NoCodec

\* the part of C12 about placement: such a unit never reaches os.Rename and
\* its file is in neither hori/ nor vert/
UnsupportedNotPlaced ==
  \A u \in Units : Unsupported(u) => pc[u] # "rename" /\ loc[u] \notin Dest

\* C12: a unit whose content-type is neither image/jpeg nor image/png never
\* calls os.Rename, has its file in neither hori/ nor vert/, and, when the
\* extractor has rejected the codec, fails with the unsupported-format error.
ClaimC12 ==
  \A u \in Units :
    Unsupported(u) =>
      /\ pc[u] # "rename"
      /\ loc[u] \notin Dest
      /\ failed[u] = "unsupported file type" => out[u].msg = "unsupported file type"

\* unit u was given a URL with nothing after its last slash
EmptySegment(u) == u \in 1..N /\ FileName(u) = <<>>

\* C13: a unit given a URL with nothing after its last slash is never at a
\* step behind os.Create, so it issues neither the HEAD nor the GET request;
\* it creates no file, and the only outcome it sends is a failure, raised
\* before any network call.
TheoremC13 ==
  \A u \in Units :
    EmptySegment(u) =>
      /\ pc[u] \in {"idle", "create", "send", "done"}
      /\ codec[u] = NoCodec /\ data[u] = NoFile /\ loc[u] = "none"
      /\ Decided(u) => out[u] # Nil /\ failed[u] \in {"naming", "create"}

WitnessC13 ==
  \E u \in Units :
    /\ EmptySegment(u)
    /\ Delivered(u)
    /\ out[u] = Err("Could not create file", <<>>)

\* C14: getImageAspectRatio closes the handle it opens on each of its return
\* paths, so once every launched unit has finished no handle it opened is
\* still open.
ClaimC14 ==
  (opc \in {"loop", "again", "returned"} /\ \A u \in Launched : Delivered(u)) =>
    handles = 0

\* C15: when the receive of line 179 yields an error, so that several units
\* have failed, the error FetchSubmissions returns is the first non-nil
\* outcome it received: the one of the only failed unit whose send had
\* completed when the loop of line 177 was left.
ClaimC15 ==
  [][(opc = "again" /\ opc' = "returned" /\ ret' # Nil) =>
       \E u \in Units : pc[u] = "done" /\ out[u] # Nil /\ ret' = out[u]]_vars

\* main has stopped in panic(err) after Authenticate, or the process has
\* exited in log.Fatal(err) after the listing call
Terminated == opc \in {"panic", "fatal"}

\* C16: when Authenticate or the listing call fails, the run ends there: no
\* step follows; up to and including that failure no directory is made, and
\* at the end no unit has been launched, no URL is eligible, no file exists
\* and nothing was received.
TheoremC16 ==
  /\ [](Terminated =>
          /\ li = 0 /\ nrecv = 0 /\ ret = NoRet /\ validURLs = <<>>
          /\ \A u \in Units :
               /\ pc[u] = "idle" /\ launched[u] = 0
               /\ loc[u] = "none" /\ data[u] = NoFile)
  /\ [][~Terminated]_vars
  /\ [][(opc \in {"auth", "list"}) => dirs' = dirs]_vars

WitnessC16 ==
  /\ opc = "fatal"
  /\ dirs = {}
  /\ Len(web) = MaxUnits

\* C17: a unit whose HEAD request failed sends the error "could not get HEAD"
\* and nothing else happens in it: its file is still the empty file os.Create
\* made in the working directory, no codec and no aspect ratio was computed,
\* and with that unit alone no handle was opened by the extractor.
TheoremC17 ==
  \A u \in Units :
    failed[u] = "head" =>
      /\ Decided(u)
      /\ out[u] = Err("could not get HEAD", <<>>)
      /\ loc[u] = "wd" /\ data[u] = Empty
      /\ codec[u] = NoCodec /\ ratio[u] = NoRatio
      /\ N = 1 => handles = 0

WitnessC17 ==
  \E u \in Units :
    /\ failed[u] = "head"
    /\ Delivered(u)
    /\ loc[u] = "wd" /\ data[u] = Empty

\* the errors getImageAspectRatio returns from the decoders and for a codec
\* it does not know
ExtractorKinds == {"decode", "unsupported file type"}

\* C18: the outcome a unit sends after a failure of the extractor carries
\* the kind of the extractor's error, and differs from the outcome sent for a
\* naming failure and from the one sent for a failed copy of the body.
ClaimC18 ==
  \A u \in Units :
    failed[u] \in ExtractorKinds =>
      /\ out[u] # NamingFailure
      /\ out[u] # StreamFailure
      /\ \A e \in ExtractorKinds \ {failed[u]} : out[u] # ExtractFailure(e)

\* the part of C19 about the order of the calls: a unit is launched only
\* after both os.Mkdir calls have returned
LaunchAfterMkdirs ==
  (\E u \in Units : pc[u] # "idle") => opc \in {"launch", "loop", "again", "returned"}

\* C19: when the first unit of work begins, the directories hori and vert
\* both exist.
ClaimC19 ==
  (\E u \in Units : pc[u] # "idle") => {"hori", "vert"} \subseteq dirs

\* C20: with no eligible URL, FetchSubmissions launches no unit and receives
\* nothing from abort; at the loop of line 177 it can only return, and what
\* it returns is nil.
TheoremC20 ==
  (opc \in {"launch", "loop", "again", "returned"} /\ N = 0) =>
    /\ li = 0 /\ nrecv = 0 /\ i = 0
    /\ \A u \in Units : pc[u] = "idle" /\ launched[u] = 0 /\ sends[u] = 0
    /\ opc # "again"
    /\ opc = "loop" => ENABLED ReturnNil
    /\ opc = "returned" => ret = Nil

WitnessC20 ==
  /\ opc = "returned"
  /\ N = 0
  /\ Len(posts) >= 1
  /\ ret = Nil

====
